---- MODULE Spec2Model ----
(***************************************************************************)
(* A model of pypdfium2's helper layer and of its binary downloader.       *)
(*                                                                         *)
(*   Spec    one caller that opens PdfContext scopes (_helpers.py 17-51)   *)
(*           and calls render_page (_helpers.py 65-159) inside them, one   *)
(*           statement group of the source per action.  The native library *)
(*           is a test double that counts the handles it has handed out    *)
(*           and not yet taken back.                                       *)
(*   SpecDL  main / download_releases of update_pdfium.py (99-205): the    *)
(*           thread pool, its workers and the steps that consume the       *)
(*           archives mapping.                                             *)
(***************************************************************************)
EXTENDS Integers, Sequences, FiniteSets, TLC

\* Bounds of the model.
MaxPages == 2
MaxScopes == 2
MaxRenders == 2
NumPlatforms == 3

\* Bits of the flags word of FPDF_RenderPageBitmap, as PDFium's public header
\* defines the names _helpers.py uses at lines 130, 135 and 137.
FPDF_ANNOT == 1
FPDF_LCD_TEXT == 2
FPDF_PRINTING == 2048

VARIABLES
    pc,               \* the caller's position
    pdf,              \* self.pdf: the handle FPDF_LoadDocument returned
    open_docs,        \* native library: document handles loaded and not closed
    open_pages,       \* native library: page handles loaded and not closed
    open_bitmaps,     \* native library: bitmaps created and not destroyed
    enter_calls,      \* native calls made by the last __enter__
    closes,           \* FPDF_CloseDocument calls made for the current scope
    docs_before,      \* open_docs when the last __enter__ began
    exc,              \* the exception in flight inside the scope, or "none"
    caller_exc,       \* what the caller of the with statement received
    scope_result,     \* "none", "enter_failed", "exited"
    scopes,           \* scopes opened so far
    renders,          \* render_page calls made in the current scope
    page_index, rotation, render_annotations, optimise_mode,  \* arguments
    render_flags,     \* the local render_flags
    calls,            \* native calls (and the decode) of the last render_page
    render_args,      \* <<>>, or <<[rotation, flags]>> passed to the rasteriser
    pages_before,     \* open_pages when the last render_page began
    bitmaps_before,   \* open_bitmaps when the last render_page began
    result,           \* of the last render_page: "none", "running", "returned", "raised"
    dl_pc,            \* update_pdfium.main: position of the main thread
    download_files,   \* the requested platforms, in the mapping's order
    worker,           \* per platform: "idle", "running", "ok", "failed"
    archives,         \* the archives mapping: a set of <<dirpath, file_path>>
    collected,        \* results of pool.map consumed so far
    finish_order,     \* the order in which the workers finished
    unpacked,         \* archive files unpack_archives has extracted
    bindings,         \* platform directories generate_bindings has processed
    dl_exc            \* the exception main died of, or "none"

scope_vars == <<pdf, open_docs, enter_calls, closes, docs_before, exc,
                caller_exc, scope_result, scopes, renders>>
scope_kept == <<pdf, open_docs, enter_calls, closes, docs_before, caller_exc,
                scope_result, scopes>>
call_args == <<page_index, rotation, render_annotations, optimise_mode>>
call_vars == <<render_flags, calls, render_args, pages_before, bitmaps_before, result>>
native_vars == <<open_pages, open_bitmaps>>
dl_vars == <<dl_pc, download_files, worker, archives, collected, finish_order,
             unpacked, bindings, dl_exc>>
vars == <<pc, scope_vars, call_args, call_vars, native_vars, dl_vars>>

----------------------------------------------------------------------------
\* Values

\* Python's None, and a value wrapped so that it can be told from None.
None == <<>>
Some(x) == <<x>>

NullDocument == [loaded |-> FALSE, page_count |-> 0]

Rotations == {0, 90, 180, 270, 45}
OptimiseModes == {"none", "lcd_display", "printing"}
ModeInputs == OptimiseModes \cup {"unknown"}

\* FPDF_GetPageCount: 0 for the NULL document.
FPDF_GetPageCount(doc) == IF doc.loaded THEN doc.page_count ELSE 0

\* a | b on naturals.
RECURSIVE BitOr(_, _)
BitOr(a, b) ==
    IF a = 0 THEN b
    ELSE IF b = 0 THEN a
    ELSE (IF a % 2 = 1 \/ b % 2 = 1 THEN 1 ELSE 0) + 2 * BitOr(a \div 2, b \div 2)

\* _translate_rotation: falls off the end, returning None, for any other value.
translate_rotation(r) ==
    IF r = 0 THEN Some(0)
    ELSE IF r = 90 THEN Some(1)
    ELSE IF r = 180 THEN Some(2)
    ELSE IF r = 270 THEN Some(3)
    ELSE None

\* not 0 <= page_index < page_count
IndexOutOfBounds_noLower(i, n) == ~(i < n)
IndexOutOfBounds(i, n) == ~(0 <= i /\ i < n)

\* render_flags after lines 128-137, for a recognised mode.
RenderFlags_assign(annot, mode) ==
    LET f0 == IF annot THEN BitOr(0, FPDF_ANNOT) ELSE 0
    IN  IF mode = "lcd_display" THEN FPDF_LCD_TEXT
        ELSE IF mode = "printing" THEN FPDF_PRINTING
        ELSE f0
RenderFlags(annot, mode) ==
    LET f0 == IF annot THEN BitOr(0, FPDF_ANNOT) ELSE 0
    IN  IF mode = "none" THEN f0
        ELSE IF mode = "lcd_display" THEN BitOr(f0, FPDF_LCD_TEXT)
        ELSE IF mode = "printing" THEN BitOr(f0, FPDF_PRINTING)
        ELSE f0

----------------------------------------------------------------------------
\* PdfContext

\* __enter__ (38-45): load, then query the page count of whatever came back.
PdfContext_enter ==
    /\ pc = "outside"
    /\ scopes < MaxScopes
    /\ \E load_ok \in BOOLEAN, n \in 0..MaxPages :
         LET doc == IF load_ok THEN [loaded |-> TRUE, page_count |-> n]
                    ELSE NullDocument
             log == <<"FPDF_LoadDocument">> \o <<"FPDF_GetPageCount">>
         IN  /\ (~load_ok => n = 0)
             /\ pdf' = doc
             /\ docs_before' = open_docs
             /\ open_docs' = IF load_ok THEN open_docs + 1 ELSE open_docs
             /\ enter_calls' = log
             /\ IF FPDF_GetPageCount(doc) < 1
                THEN /\ caller_exc' = "PageCountInvalidError"
                     /\ scope_result' = "enter_failed"
                     /\ pc' = "outside"
                ELSE /\ caller_exc' = "none"
                     /\ scope_result' = "none"
                     /\ pc' = "body"
    /\ scopes' = scopes + 1
    /\ closes' = 0
    /\ exc' = "none"
    /\ renders' = 0
    /\ page_index' = 0 /\ rotation' = 0
    /\ render_annotations' = TRUE /\ optimise_mode' = "lcd_display"
    /\ render_flags' = 0 /\ calls' = <<>> /\ render_args' = None
    /\ pages_before' = open_pages /\ bitmaps_before' = open_bitmaps
    /\ result' = "none"
    /\ UNCHANGED <<native_vars, dl_vars>>

\* The with block ends normally.
BodyEnd ==
    /\ pc = "body"
    /\ pc' = "exit_close"
    /\ UNCHANGED <<scope_vars, call_args, call_vars, native_vars, dl_vars>>

\* A statement of the with block other than render_page raises.
BodyRaise ==
    /\ pc = "body"
    /\ exc' = "BodyError"
    /\ pc' = "exit_close"
    /\ UNCHANGED <<scope_kept, renders, call_args, call_vars, native_vars, dl_vars>>

\* __exit__, line 48, closing only when no exception is in flight.
PdfContext_exit_close_onlyClean ==
    /\ pc = "exit_close"
    /\ open_docs' = IF exc = "none" THEN open_docs - 1 ELSE open_docs
    /\ closes' = IF exc = "none" THEN closes + 1 ELSE closes
    /\ pc' = "exit_raise"
    /\ UNCHANGED <<pdf, enter_calls, docs_before, exc, caller_exc, scope_result,
                   scopes, renders>>
    /\ UNCHANGED <<call_args, call_vars, native_vars, dl_vars>>

\* __exit__, line 48: FPDF_CloseDocument(self.pdf), unconditionally.
PdfContext_exit_close ==
    /\ pc = "exit_close"
    /\ open_docs' = open_docs - 1
    /\ closes' = closes + 1
    /\ pc' = "exit_raise"
    /\ UNCHANGED <<pdf, enter_calls, docs_before, exc, caller_exc, scope_result,
                   scopes, renders>>
    /\ UNCHANGED <<call_args, call_vars, native_vars, dl_vars>>

\* __exit__, lines 49-51: raise exc_type(exc_value) when there was one.
PdfContext_exit_raise ==
    /\ pc = "exit_raise"
    /\ caller_exc' = exc
    /\ scope_result' = "exited"
    /\ pc' = "outside"
    /\ UNCHANGED <<pdf, open_docs, enter_calls, closes, docs_before, exc, scopes, renders>>
    /\ UNCHANGED <<call_args, call_vars, native_vars, dl_vars>>

----------------------------------------------------------------------------
\* render_page

\* Leaving render_page by an exception: it reaches the with statement.
Raise(kind) ==
    /\ exc' = kind
    /\ result' = "raised"
    /\ pc' = "exit_close"

\* Lines 116-118: the page count, the bounds check.
render_page_begin ==
    /\ pc = "body"
    /\ renders < MaxRenders
    /\ renders' = renders + 1
    /\ \E i \in -1..MaxPages, r \in Rotations, a \in BOOLEAN, m \in ModeInputs :
         /\ page_index' = i
         /\ rotation' = r
         /\ render_annotations' = a
         /\ optimise_mode' = m
         /\ IF IndexOutOfBounds(i, FPDF_GetPageCount(pdf))
            THEN Raise("PageIndexError")
            ELSE /\ result' = "running"
                 /\ pc' = "load_page"
                 /\ exc' = exc
    /\ calls' = <<"FPDF_GetPageCount">>
    /\ render_flags' = 0
    /\ render_args' = None
    /\ pages_before' = open_pages
    /\ bitmaps_before' = open_bitmaps
    /\ UNCHANGED <<scope_kept, native_vars, dl_vars>>

\* Line 120.
render_page_load_page ==
    /\ pc = "load_page"
    /\ open_pages' = open_pages + 1
    /\ calls' = Append(calls, "FPDF_LoadPage")
    /\ pc' = "create_bitmap"
    /\ UNCHANGED <<scope_vars, call_args, render_flags, render_args, pages_before,
                   bitmaps_before, result, open_bitmaps, dl_vars>>

\* Lines 122-125: the page's size, then the bitmap.
render_page_create_bitmap ==
    /\ pc = "create_bitmap"
    /\ open_bitmaps' = open_bitmaps + 1
    /\ calls' = calls \o <<"FPDF_GetPageWidthF", "FPDF_GetPageHeightF", "FPDFBitmap_Create">>
    /\ pc' = "fill_rect"
    /\ UNCHANGED <<scope_vars, call_args, render_flags, render_args, pages_before,
                   bitmaps_before, result, open_pages, dl_vars>>

\* Line 126.
render_page_fill_rect ==
    /\ pc = "fill_rect"
    /\ calls' = Append(calls, "FPDFBitmap_FillRect")
    /\ pc' = "flags"
    /\ UNCHANGED <<scope_vars, call_args, render_flags, render_args, pages_before,
                   bitmaps_before, result, native_vars, dl_vars>>

\* Lines 128-139: the flags word; an unrecognised mode raises ValueError here.
render_page_flags ==
    /\ pc = "flags"
    /\ render_flags' = RenderFlags(render_annotations, optimise_mode)
    /\ IF optimise_mode \in OptimiseModes
       THEN /\ pc' = "render"
            /\ UNCHANGED <<exc, result>>
       ELSE Raise("ValueError")
    /\ UNCHANGED <<scope_kept, renders, call_args, calls, render_args, pages_before,
                   bitmaps_before, native_vars, dl_vars>>

\* Lines 141-148: the rasteriser is called with _translate_rotation's value.
\* For None the binding either refuses the argument or lets it through.
render_page_render ==
    /\ pc = "render"
    /\ render_args' = Some([rotation |-> translate_rotation(rotation),
                            flags |-> render_flags])
    /\ calls' = Append(calls, "FPDF_RenderPageBitmap")
    /\ \E accepted \in BOOLEAN :
         /\ (translate_rotation(rotation) # None => accepted)
         /\ IF accepted
            THEN /\ pc' = "get_buffer"
                 /\ UNCHANGED <<exc, result>>
            ELSE Raise("ArgumentError")
    /\ UNCHANGED <<scope_kept, renders, call_args, render_flags, pages_before,
                   bitmaps_before, native_vars, dl_vars>>

\* Lines 150-153: the buffer, the cast, Image.frombuffer (which may raise).
render_page_get_buffer ==
    /\ pc = "get_buffer"
    /\ calls' = calls \o <<"FPDFBitmap_GetBuffer", "Image.frombuffer">>
    /\ \E decoded \in BOOLEAN :
         IF decoded
         THEN /\ pc' = "destroy_bitmap"
              /\ UNCHANGED <<exc, result>>
         ELSE Raise("DecodeError")
    /\ UNCHANGED <<scope_kept, renders, call_args, render_flags, render_args,
                   pages_before, bitmaps_before, native_vars, dl_vars>>

\* Lines 155-156 with the test inverted: the bitmap is never destroyed.
render_page_destroy_bitmap_inverted ==
    /\ pc = "destroy_bitmap"
    /\ pc' = "close_page"
    /\ UNCHANGED <<scope_vars, call_args, call_vars, native_vars, dl_vars>>

\* Lines 155-156: bitmap is a pointer object, never None.
render_page_destroy_bitmap ==
    /\ pc = "destroy_bitmap"
    /\ open_bitmaps' = open_bitmaps - 1
    /\ calls' = Append(calls, "FPDFBitmap_Destroy")
    /\ pc' = "close_page"
    /\ UNCHANGED <<scope_vars, call_args, render_flags, render_args, pages_before,
                   bitmaps_before, result, open_pages, dl_vars>>

\* Lines 157-159.
render_page_close_page ==
    /\ pc = "close_page"
    /\ open_pages' = open_pages - 1
    /\ calls' = Append(calls, "FPDF_ClosePage")
    /\ result' = "returned"
    /\ pc' = "body"
    /\ UNCHANGED <<scope_vars, call_args, render_flags, render_args, pages_before,
                   bitmaps_before, open_bitmaps, dl_vars>>

----------------------------------------------------------------------------
\* update_pdfium: main, download_releases and the worker _get_package

Platforms == 1..NumPlatforms

\* join(DataTree, pl_name), and join(dirpath, "%s.%s" % (arcname, ReleaseExtension)).
DirPath(p) == <<"data", p>>
FilePath(p) == DirPath(p) \o <<"pdfium", p, "tgz">>

Range(seq) == {seq[i] : i \in 1..Len(seq)}

\* archives[dirpath] = file_path
DictSet(d, k, v) == [x \in DOMAIN d \cup {k} |-> IF x = k THEN v ELSE d[x]]
EmptyDict == [x \in {} |-> <<>>]

\* The sequences of distinct platforms: the keys of download_files, in order.
PlatformLists ==
    {q \in UNION {[1..n -> Platforms] : n \in 0..NumPlatforms} :
        \A i, j \in 1..Len(q) : i # j => q[i] # q[j]}

DLIdle ==
    /\ dl_pc = "start"
    /\ download_files = <<>>
    /\ worker = [p \in Platforms |-> "idle"]
    /\ archives = EmptyDict
    /\ collected = 0
    /\ finish_order = <<>>
    /\ unpacked = {}
    /\ bindings = {}
    /\ dl_exc = "none"

helper_vars == <<pc, scope_vars, call_args, call_vars, native_vars>>

\* Lines 115-127: the argument list, then ThreadPoolExecutor(len(args)), which
\* raises ValueError for max_workers = 0; pool.map submits every task at once.
download_releases_start ==
    /\ dl_pc = "start"
    /\ IF Len(download_files) = 0
       THEN /\ dl_exc' = "ValueError"
            /\ dl_pc' = "raised"
            /\ UNCHANGED worker
       ELSE /\ worker' = [p \in Platforms |->
                            IF p \in Range(download_files) THEN "running" ELSE "idle"]
            /\ dl_pc' = "collect"
            /\ UNCHANGED dl_exc
    /\ UNCHANGED <<download_files, archives, collected, finish_order, unpacked,
                   bindings, helper_vars>>

\* Lines 99-110, in a pool thread: urlretrieve, None when it raised.
get_package(p) ==
    /\ worker[p] = "running"
    /\ \E downloaded \in BOOLEAN :
         worker' = [worker EXCEPT ![p] = IF downloaded THEN "ok" ELSE "failed"]
    /\ finish_order' = Append(finish_order, p)
    /\ UNCHANGED <<dl_pc, download_files, archives, collected, unpacked, bindings,
                   dl_exc, helper_vars>>

\* Lines 128-131 with the results taken as the workers finish.
download_releases_collect_asCompleted ==
    /\ dl_pc = "collect"
    /\ collected < Len(download_files)
    /\ collected < Len(finish_order)
    /\ LET p == download_files[collected + 1]
           q == finish_order[collected + 1]
       IN  /\ archives' = IF worker[q] = "ok"
                          THEN DictSet(archives, DirPath(p), FilePath(q))
                          ELSE archives
    /\ collected' = collected + 1
    /\ UNCHANGED <<dl_pc, download_files, worker, finish_order, unpacked, bindings,
                   dl_exc, helper_vars>>

\* Lines 128-131: pool.map yields the results in the order of args, waiting
\* for each in turn.
download_releases_collect ==
    /\ dl_pc = "collect"
    /\ collected < Len(download_files)
    /\ LET p == download_files[collected + 1]
       IN  /\ worker[p] \in {"ok", "failed"}
           /\ archives' = IF worker[p] = "ok"
                          THEN DictSet(archives, DirPath(p), FilePath(p))
                          ELSE archives
    /\ collected' = collected + 1
    /\ UNCHANGED <<dl_pc, download_files, worker, finish_order, unpacked, bindings,
                   dl_exc, helper_vars>>

\* Line 133 (and main, 203): the pool is shut down, archives is returned.
download_releases_return ==
    /\ dl_pc = "collect"
    /\ collected = Len(download_files)
    /\ dl_pc' = "unpack"
    /\ UNCHANGED <<download_files, worker, archives, collected, finish_order,
                   unpacked, bindings, dl_exc, helper_vars>>

\* Lines 136-149 (main, 204): every file of archives.values().
unpack_archives ==
    /\ dl_pc = "unpack"
    /\ unpacked' = {archives[d] : d \in DOMAIN archives}
    /\ dl_pc' = "bind"
    /\ UNCHANGED <<download_files, worker, archives, collected, finish_order,
                   bindings, dl_exc, helper_vars>>

\* Lines 152-176 (main, 205): every directory of archives.keys().
generate_bindings ==
    /\ dl_pc = "bind"
    /\ bindings' = DOMAIN archives
    /\ dl_pc' = "done"
    /\ UNCHANGED <<download_files, worker, archives, collected, finish_order,
                   unpacked, dl_exc, helper_vars>>

----------------------------------------------------------------------------
Init ==
    /\ pc = "outside"
    /\ pdf = NullDocument
    /\ open_docs = 0 /\ open_pages = 0 /\ open_bitmaps = 0
    /\ enter_calls = <<>>
    /\ closes = 0
    /\ docs_before = 0
    /\ exc = "none"
    /\ caller_exc = "none"
    /\ scope_result = "none"
    /\ scopes = 0
    /\ renders = 0
    /\ page_index = 0 /\ rotation = 0
    /\ render_annotations = TRUE /\ optimise_mode = "lcd_display"
    /\ render_flags = 0
    /\ calls = <<>>
    /\ render_args = None
    /\ pages_before = 0 /\ bitmaps_before = 0
    /\ result = "none"
    /\ DLIdle

Next ==
    \/ PdfContext_enter
    \/ BodyEnd
    \/ BodyRaise
    \/ PdfContext_exit_close
    \/ PdfContext_exit_raise
    \/ render_page_begin
    \/ render_page_load_page
    \/ render_page_create_bitmap
    \/ render_page_fill_rect
    \/ render_page_flags
    \/ render_page_render
    \/ render_page_get_buffer
    \/ render_page_destroy_bitmap
    \/ render_page_close_page

Spec == Init /\ [][Next]_vars

\* main(platforms): the helper layer is not in use.
InitDL ==
    /\ pc = "outside"
    /\ pdf = NullDocument
    /\ open_docs = 0 /\ open_pages = 0 /\ open_bitmaps = 0
    /\ enter_calls = <<>>
    /\ closes = 0
    /\ docs_before = 0
    /\ exc = "none"
    /\ caller_exc = "none"
    /\ scope_result = "none"
    /\ scopes = 0
    /\ renders = 0
    /\ page_index = 0 /\ rotation = 0
    /\ render_annotations = TRUE /\ optimise_mode = "lcd_display"
    /\ render_flags = 0
    /\ calls = <<>>
    /\ render_args = None
    /\ pages_before = 0 /\ bitmaps_before = 0
    /\ result = "none"
    /\ dl_pc = "start"
    /\ download_files \in PlatformLists
    /\ worker = [p \in Platforms |-> "idle"]
    /\ archives = EmptyDict
    /\ collected = 0
    /\ finish_order = <<>>
    /\ unpacked = {}
    /\ bindings = {}
    /\ dl_exc = "none"

NextDL ==
    \/ download_releases_start
    \/ \E p \in Platforms : get_package(p)
    \/ download_releases_collect
    \/ download_releases_return
    \/ unpack_archives
    \/ generate_bindings

SpecDL == InitDL /\ [][NextDL]_vars

----------------------------------------------------------------------------
\* Properties

Finished == result \in {"returned", "raised"}
IndexValid == page_index \in 0..(FPDF_GetPageCount(pdf) - 1)
HasBit(word, bit) == (word \div bit) % 2 = 1
\* The error render_page raises for a bad configuration value (line 139).
ConfigurationErrors == {"ValueError"}
Allocations == {"FPDF_LoadPage", "FPDFBitmap_Create"}
IsSequenced(c) ==
    c \in {"FPDF_LoadPage", "FPDFBitmap_Create", "FPDFBitmap_FillRect",
           "FPDF_RenderPageBitmap", "FPDFBitmap_GetBuffer", "Image.frombuffer",
           "FPDFBitmap_Destroy", "FPDF_ClosePage"}

\* C1: after any render_page call, returned or raised, as many page handles
\* and bitmap handles are open as before the call.
C1_HandlesReleased ==
    Finished => /\ open_pages = pages_before
                /\ open_bitmaps = bitmaps_before

\* C2: a scope whose __enter__ succeeded closes the document exactly once on
\* every exit path: never before __exit__, once before __exit__ re-raises,
\* and the caller receives the exception raised inside the scope.
C2_ClosedOnceAndPropagated ==
    /\ closes <= 1
    /\ pc \notin {"outside", "exit_raise"} => closes = 0
    /\ pc = "exit_raise" => /\ closes = 1
                            /\ open_docs = docs_before
    /\ (pc = "outside" /\ scope_result = "exited") =>
           /\ closes = 1
           /\ open_docs = docs_before
           /\ caller_exc = exc

\* C2 witness: a scope left by an exception, closed once, the exception received.
C2_Witness ==
    /\ pc = "outside" /\ scope_result = "exited"
    /\ exc = "ValueError" /\ caller_exc = "ValueError"
    /\ closes = 1

\* C3: a document that loads with a page count below 1 makes __enter__ fail
\* with PageCountInvalidError and leaves no document handle open.
C3_EmptyDocumentReleased ==
    (pc = "outside" /\ scope_result = "enter_failed" /\ pdf.loaded) =>
        /\ caller_exc = "PageCountInvalidError"
        /\ open_docs = docs_before

\* C4: a failed native load makes __enter__ fail with DocumentLoadError,
\* without querying the page count of the failed handle.
C4_LoadFailureReported ==
    (pc = "outside" /\ scope_result = "enter_failed" /\ ~pdf.loaded) =>
        /\ caller_exc = "DocumentLoadError"
        /\ "FPDF_GetPageCount" \notin Range(enter_calls)

\* C5: render_page raises PageIndexError exactly for the indices outside
\* [0, page_count), and then before FPDF_LoadPage or FPDFBitmap_Create.
C5_PageIndexError ==
    result \in {"running", "returned", "raised"} =>
        /\ (result = "raised" /\ exc = "PageIndexError") <=> ~IndexValid
        /\ exc = "PageIndexError" =>
               /\ Range(calls) \cap Allocations = {}
               /\ open_pages = pages_before
               /\ open_bitmaps = bitmaps_before

\* C5 witness: a negative index was refused.
C5_Witness ==
    /\ result = "raised" /\ exc = "PageIndexError"
    /\ page_index < 0
    /\ calls = <<"FPDF_GetPageCount">>

\* C6: an unrecognised optimise_mode (with a valid index) is refused with a
\* configuration error before any page or bitmap handle is allocated.
C6_ModeRefusedPreflight ==
    (Finished /\ IndexValid /\ optimise_mode \notin OptimiseModes) =>
        /\ result = "raised"
        /\ exc \in ConfigurationErrors
        /\ Range(calls) \cap Allocations = {}
        /\ open_pages = pages_before
        /\ open_bitmaps = bitmaps_before

\* C7: the rasteriser is only invoked with a rotation code in {0, 1, 2, 3},
\* and a rotation other than 0, 90, 180, 270 is refused with a configuration
\* error without invoking the rasteriser.
C7_RotationCode ==
    /\ render_args # None => render_args[1].rotation \in {Some(c) : c \in 0..3}
    /\ (Finished /\ IndexValid /\ rotation \notin {0, 90, 180, 270}) =>
           /\ result = "raised"
           /\ exc \in ConfigurationErrors
           /\ render_args = None

\* C8: the flags word passed to the rasteriser has the annotations bit iff
\* render_annotations, the LCD-text bit iff the mode is lcd-display, the
\* printing bit iff the mode is printing, and no other bit.
C8_FlagsWord ==
    render_args # None =>
        LET f == render_args[1].flags
        IN  /\ HasBit(f, FPDF_ANNOT) <=> render_annotations
            /\ HasBit(f, FPDF_LCD_TEXT) <=> (optimise_mode = "lcd_display")
            /\ HasBit(f, FPDF_PRINTING) <=> (optimise_mode = "printing")
            /\ ~(HasBit(f, FPDF_LCD_TEXT) /\ HasBit(f, FPDF_PRINTING))
            /\ f = (IF HasBit(f, FPDF_ANNOT) THEN FPDF_ANNOT ELSE 0)
                 + (IF HasBit(f, FPDF_LCD_TEXT) THEN FPDF_LCD_TEXT ELSE 0)
                 + (IF HasBit(f, FPDF_PRINTING) THEN FPDF_PRINTING ELSE 0)

\* C8 witness: the rasteriser was called for annotations and printing.
C8_Witness ==
    /\ render_args # None
    /\ render_annotations /\ optimise_mode = "printing"
    /\ render_args[1].flags = FPDF_ANNOT + FPDF_PRINTING

\* C9: a render_page call that returned made these calls, each once, in this
\* order: load page, create bitmap, fill, rasterise, read buffer and decode,
\* destroy bitmap, close page.
C9_CallOrder ==
    result = "returned" =>
        SelectSeq(calls, IsSequenced) =
            <<"FPDF_LoadPage", "FPDFBitmap_Create", "FPDFBitmap_FillRect",
              "FPDF_RenderPageBitmap", "FPDFBitmap_GetBuffer", "Image.frombuffer",
              "FPDFBitmap_Destroy", "FPDF_ClosePage">>

\* C9 witness: a call returned with all its handles released.
C9_Witness ==
    /\ result = "returned"
    /\ Len(calls) > 1
    /\ open_bitmaps = bitmaps_before /\ open_pages = pages_before

\* The mapping of exactly the platforms whose download succeeded.
Succeeded == {p \in Range(download_files) : worker[p] = "ok"}
ExactArchives ==
    /\ DOMAIN archives = {DirPath(p) : p \in Succeeded}
    /\ \A p \in Succeeded : archives[DirPath(p)] = FilePath(p)

\* C10: download_releases returns a mapping of exactly the platforms whose
\* download succeeded, each with its own archive path, whatever the order the
\* workers finish in, and unpacking and binding generation cover that mapping.
C10_ExactArchives ==
    /\ dl_pc # "raised"
    /\ dl_pc \in {"unpack", "bind", "done"} => ExactArchives
    /\ dl_pc = "done" => /\ unpacked = {FilePath(p) : p \in Succeeded}
                         /\ bindings = {DirPath(p) : p \in Succeeded}

\* The same for a request of at least one platform: it holds of SpecDL.
NonEmptyExactArchives ==
    Len(download_files) > 0 => C10_ExactArchives

\* A request whose workers finished in the reverse of the order of args, one
\* of them failing.
OutOfOrderFinish ==
    /\ dl_pc = "done"
    /\ Len(download_files) = 2
    /\ finish_order = <<download_files[2], download_files[1]>>
    /\ worker[download_files[1]] = "failed"
    /\ worker[download_files[2]] = "ok"

====
